---- MODULE Spec2Model ----
(***************************************************************************)
(* Model of sulis_state/src/script/script_particle_generator.rs: the       *)
(* script-facing ScriptParticleGenerator (configuration setters, param     *)
(* construction, activation into a runtime Anim), and of                   *)
(* sulis_view/src/inventory_window.rs: the ItemButton's item window and    *)
(* the widgets InventoryWindow::on_add builds.                             *)
(*                                                                         *)
(* Representation of values:                                               *)
(*  - Option<T>: the empty tuple is None, the 1-tuple <<v>> is Some(v).    *)
(*  - Result<T>: a record [ok |-> TRUE, val |-> v] or [ok |-> FALSE, ...]. *)
(*  - f32 coefficients: integers that are f32 values; f32_round(n) is the  *)
(*    f32 nearest to an integer n (n itself up to 2^24 in magnitude), the  *)
(*    result of converting an i32 and of adding two coefficients.          *)
(*  - f32 callback times in seconds: a finite time is the pair <<m, e>>    *)
(*    standing for m * 2^e, with |m| <= 2^24 (1.5 is <<3, -1>>); the other *)
(*    values are <<"NaN">>, <<"inf">> and <<"-inf">>.                      *)
(*  - u32 (the millisecond times handed to the driver): the pair           *)
(*    <<hi, lo>> of its 16-bit halves, standing for hi * 65536 + lo, as    *)
(*    the integers of the checker end at 2^31 - 1.                         *)
(***************************************************************************)
EXTENDS Integers, Sequences, FiniteSets, TLC

VARIABLES
    gen,          \* the ScriptParticleGenerator userdata held by the script
    animations,   \* the animations registered through GameState::add_animation
    script,       \* the calls made on the generator so far, each <<method, args>>
    ret,          \* the Result the last call returned
    param_args,   \* arguments of a pending / finished param(...) call
    param_ret,    \* Option: the Result returned by param(param_args)
    dist_args,    \* arguments of a pending / finished dist_param(...) call
    dist_ret,     \* Option: the Result returned by dist_param(dist_args)
    button,       \* one ItemButton: item_window, item_index, prop_index, mouse_inside
    windows,      \* the item windows added to the root widget, in creation order
    event,        \* the last event the ItemButton handled, <<handler, args, returned>>
    inventory,    \* the actor's inventory: items and the item index equipped per slot
    window        \* the InventoryWindow: the actor's listeners and the widgets on_add built

\* the variables of the item button
item_vars == <<button, windows, event>>

\* the variables of the inventory window
inventory_vars == <<inventory, window>>

\* the variables the generator's methods never touch
other_vars == <<dist_args, dist_ret, item_vars, inventory_vars>>

vars == <<gen, animations, script, ret, param_args, param_ret, other_vars>>

\* Longest script: the number of method calls made on one generator.
MaxCalls == 3

----------------------------------------------------------------------------
(* Option and Result *)

None == <<>>

Some(v) == <<v>>

is_none(o) == o = <<>>

is_some(o) == o # <<>>

unwrap(o) == o[1]

Unit == <<>>

Ok(v) == [ok |-> TRUE, val |-> v]

Err(e) == [ok |-> FALSE, err |-> e]

----------------------------------------------------------------------------
(* f32 arithmetic over the integers *)

\* 2^n, n >= 0
RECURSIVE pow2(_)
pow2(n) == IF n = 0 THEN 1 ELSE 2 * pow2(n - 1)

\* the number of binary digits of n >= 0
RECURSIVE bits(_)
bits(n) == IF n = 0 THEN 0 ELSE 1 + bits(n \div 2)

\* n / 2^s rounded to an integer the way f32 arithmetic rounds: to the
\* nearest, a tie to the even one
round_shift(n, s) ==
    LET unit == pow2(s)
        q == n \div unit
        r == n % unit
    IN  IF 2 * r > unit \/ (2 * r = unit /\ q % 2 = 1) THEN q + 1 ELSE q

\* the f32 nearest to the integer n: n itself while it has at most 24 bits,
\* the nearest multiple of the f32 spacing beyond (a tie goes to the even
\* multiple).  A result of 2^31 is past the integers of the checker, so an n
\* within 64 of 2^31 is left out.
f32_round(n) ==
    LET a == IF n < 0 THEN -n ELSE n
        s == IF bits(a) > 24 THEN bits(a) - 24 ELSE 0
        v == round_shift(a, s) * pow2(s)
    IN  IF n < 0 THEN -v ELSE v

----------------------------------------------------------------------------
(* animation::particle_generator::Param (the four-coefficient polynomial) *)

with_jerk(value, dt, d2t, d3t) == [value |-> value, dt |-> dt, d2t |-> d2t, d3t |-> d3t]

with_accel(value, dt, d2t) == with_jerk(value, dt, d2t, 0)

with_speed(value, dt) == with_jerk(value, dt, 0, 0)

fixed(value) == with_jerk(value, 0, 0, 0)

\* value + delta is an f32 sum: the f32 nearest to the exact sum
offset(p, delta) == [p EXCEPT !.value = f32_round(p.value + delta)]

\* (exact for the coefficients and times it is evaluated at here, all of a
\* few bits)
evaluate(p, t) == p.value + p.dt * t + p.d2t * t * t + p.d3t * t * t * t

\* param(value, dt?, d2t?, d3t?): args is the 4-tuple <<f32, Option, Option, Option>>
param(args) ==
    LET value == args[1]
        dt    == args[2]
        d2t   == args[3]
        d3t   == args[4]
    IN  IF is_none(dt) THEN Ok(fixed(value))
        ELSE IF is_none(d2t) THEN Ok(with_speed(value, unwrap(dt)))
        ELSE IF is_none(d3t) THEN Ok(with_accel(value, unwrap(dt), unwrap(d2t)))
        ELSE Ok(with_jerk(value, unwrap(dt), unwrap(d2t), unwrap(d3t)))

----------------------------------------------------------------------------
(* animation::particle_generator::Dist, DistParam, DistParam2D *)

create_fixed(value) == <<"Fixed", value>>

create_uniform(min, max) == <<"Uniform", min, max>>

create_angular(min_a, max_a, min_s, max_s) == <<"Angular", min_a, max_a, min_s, max_s>>

DistParam_new(value, dt, d2t, d3t) == [value |-> value, dt |-> dt, d2t |-> d2t, d3t |-> d3t]

\* the second branch pasted from the first: a lone dt is dropped
dist_param_pasted(args) ==
    LET value == args[1]
        dt    == args[2]
        d2t   == args[3]
        d3t   == args[4]
    IN  IF is_none(dt)
        THEN Ok(DistParam_new(value, create_fixed(0), create_fixed(0), create_fixed(0)))
        ELSE IF is_none(d2t)
        THEN Ok(DistParam_new(value, create_fixed(0), create_fixed(0), create_fixed(0)))
        ELSE IF is_none(d3t)
        THEN Ok(DistParam_new(value, unwrap(dt), unwrap(d2t), create_fixed(0)))
        ELSE Ok(DistParam_new(value, unwrap(dt), unwrap(d2t), unwrap(d3t)))

\* dist_param(value, dt?, d2t?, d3t?): args is <<Dist, Option, Option, Option>>
dist_param(args) ==
    LET value == args[1]
        dt    == args[2]
        d2t   == args[3]
        d3t   == args[4]
    IN  IF is_none(dt)
        THEN Ok(DistParam_new(value, create_fixed(0), create_fixed(0), create_fixed(0)))
        ELSE IF is_none(d2t)
        THEN Ok(DistParam_new(value, unwrap(dt), create_fixed(0), create_fixed(0)))
        ELSE IF is_none(d3t)
        THEN Ok(DistParam_new(value, unwrap(dt), unwrap(d2t), create_fixed(0)))
        ELSE Ok(DistParam_new(value, unwrap(dt), unwrap(d2t), unwrap(d3t)))

DistParam2D_new(x, y) == [x |-> x, y |-> IF is_none(y) THEN x ELSE unwrap(y)]

----------------------------------------------------------------------------
(* Collaborators: the turn manager's entities, the resource set, ExtInt *)

\* mgr.entity(parent): location and size of the owner (sizes are even, so
\* the centre computed by new() is an integer).
entity(parent) ==
    IF parent = 0
    THEN [location |-> [x |-> 4, y |-> 6], size |-> [width |-> 2, height |-> 2]]
    ELSE [location |-> [x |-> 10, y |-> 2], size |-> [width |-> 4, height |-> 2]]

LoadedImages == {"particles/circle4"}

\* ResourceSet::get_image(id) -> Option<image>
get_image(id) == IF id \in LoadedImages THEN Some(id) ELSE None

Infinity == <<"Infinity">>

ExtInt(n) == <<"Int", n>>

is_infinite(e) == e = Infinity

\* GeneratorModel::new(duration_millis, x, y)
GeneratorModel_new(duration_millis, x, y) ==
    [ duration_millis |-> duration_millis,
      position |-> <<fixed(x), fixed(y)>>,
      rotation |-> None,
      red |-> fixed(1),
      green |-> fixed(1),
      blue |-> fixed(1),
      alpha |-> fixed(1),
      moves_with_parent |-> FALSE,
      gen_rate |-> fixed(0),
      initial_overflow |-> 0,
      is_blocking |-> ~is_infinite(duration_millis),
      draw_above_entities |-> TRUE,
      particle_position_dist |-> None,
      particle_duration_dist |-> None,
      particle_size_dist |-> None,
      particle_frame_time_offset_dist |-> None ]

----------------------------------------------------------------------------
(* ScriptParticleGenerator construction *)

new(parent, image, duration_millis) ==
    LET owner == entity(parent)
        x == owner.location.x + owner.size.width \div 2
        y == owner.location.y + owner.size.height \div 2
        model == GeneratorModel_new(duration_millis, x, y)
    IN  [ parent |-> parent,
          image |-> image,
          completion_callback |-> None,
          callbacks |-> <<>>,
          model |-> model ]

new_anim(parent, image, duration_millis) ==
    LET pgen == new(parent, image, duration_millis)
    IN  [pgen EXCEPT !.model.initial_overflow = 1, !.model.gen_rate = fixed(0)]

owned_model(g) == g.model

----------------------------------------------------------------------------
(* The configuration setters registered by UserData::add_methods, each as   *)
(* the generator value the closure leaves behind.                          *)

set_blocking(self, block) == [self EXCEPT !.model.is_blocking = block]

set_draw_below_entities(self) == [self EXCEPT !.model.draw_above_entities = FALSE]

set_draw_above_entities(self) == [self EXCEPT !.model.draw_above_entities = TRUE]

set_initial_gen(self, value) == [self EXCEPT !.model.initial_overflow = value]

\* a copy-paste slip: the body of set_draw_above_entities
set_moves_with_parent_pasted(self) == [self EXCEPT !.model.draw_above_entities = TRUE]

set_moves_with_parent(self) == [self EXCEPT !.model.moves_with_parent = TRUE]

set_gen_rate(self, rate) == [self EXCEPT !.model.gen_rate = rate]

set_position(self, x, y) == [self EXCEPT !.model.position = <<x, y>>]

set_rotation(self, rotation) == [self EXCEPT !.model.rotation = Some(rotation)]

set_color(self, r, g, b, a) ==
    LET rgb == [self EXCEPT !.model.red = r, !.model.green = g, !.model.blue = b]
    IN  IF is_some(a) THEN [rgb EXCEPT !.model.alpha = unwrap(a)] ELSE rgb

set_alpha(self, a) == [self EXCEPT !.model.alpha = a]

\* first write wins: keeps a completion callback that is already set
set_completion_callback_keep_first(self, cb) ==
    IF is_none(self.completion_callback)
    THEN [self EXCEPT !.completion_callback = Some(cb)]
    ELSE self

set_completion_callback(self, cb) == [self EXCEPT !.completion_callback = Some(cb)]

\* drops a callback whose time is already scheduled
add_callback_dedup(self, cb, time) ==
    IF \E i \in 1..Len(self.callbacks) : self.callbacks[i][1] = time
    THEN self
    ELSE [self EXCEPT !.callbacks = Append(self.callbacks, <<time, cb>>)]

add_callback(self, cb, time) == [self EXCEPT !.callbacks = Append(self.callbacks, <<time, cb>>)]

set_particle_position_dist(self, x, y) ==
    [self EXCEPT !.model.particle_position_dist = Some(DistParam2D_new(x, y))]

set_particle_duration_dist(self, value) ==
    [self EXCEPT !.model.particle_duration_dist = Some(value)]

set_particle_size_dist(self, width, height) ==
    [self EXCEPT !.model.particle_size_dist = Some(<<width, height>>)]

set_particle_frame_time_offset_dist(self, value) ==
    [self EXCEPT !.model.particle_frame_time_offset_dist = Some(value)]

----------------------------------------------------------------------------
(* Activation: create_pgen, create_surface_pgen *)

\* animation::particle_generator::new(&parent, image, model)
particle_generator_new(parent, image, model) ==
    [ owner |-> parent,
      image |-> image,
      model |-> model,
      completion_callbacks |-> <<>>,
      update_callbacks |-> <<>> ]

add_completion_callback(pgen, cb) ==
    [pgen EXCEPT !.completion_callbacks = Append(pgen.completion_callbacks, cb)]

add_update_callback(pgen, cb, time_millis) ==
    [pgen EXCEPT !.update_callbacks = Append(pgen.update_callbacks, <<cb, time_millis>>)]

f32_nan == <<"NaN">>

f32_infinity == <<"inf">>

f32_neg_infinity == <<"-inf">>

\* time * 1000.0: the f32 nearest to the exact product.  m * 1000 is
\* (m * 125) * 2^3; a product of more than 24 bits loses its low bits, and one
\* beyond the largest f32 is an infinity.
f32_mul_1000(time) ==
    IF Len(time) = 1
    THEN time
    ELSE LET m == time[1]
             e == time[2]
             p == (IF m < 0 THEN -m ELSE m) * 125
             s == IF bits(p) > 24 THEN bits(p) - 24 ELSE 0
             q == round_shift(p, s)
         IN  IF bits(q) + e + 3 + s > 128
             THEN IF m < 0 THEN f32_neg_infinity ELSE f32_infinity
             ELSE <<IF m < 0 THEN -q ELSE q, e + 3 + s>>

u32_MIN == <<0, 0>>

u32_MAX == <<65535, 65535>>

\* f as u32: the fraction is dropped; NaN and a negative value give 0, a
\* value from 2^32 up gives u32::MAX (the cast saturates)
as_u32(f) ==
    IF f = f32_nan \/ f = f32_neg_infinity THEN u32_MIN
    ELSE IF f = f32_infinity THEN u32_MAX
    ELSE LET m == f[1]
             e == f[2]
         IN  IF m <= 0 THEN u32_MIN
             ELSE IF e < 0
             THEN IF -e > 24
                  THEN u32_MIN
                  ELSE LET v == m \div pow2(-e)
                       IN  <<v \div 65536, v % 65536>>
             ELSE IF bits(m) + e > 32 THEN u32_MAX
             ELSE IF e >= 16 THEN <<m * pow2(e - 16), 0>>
             ELSE LET low == (m % 65536) * pow2(e)
                  IN  <<(m \div 65536) * pow2(e) + low \div 65536, low % 65536>>

\* rounds the product to the nearest millisecond instead of dropping its
\* fraction
millis_rounded(time) ==
    LET f == f32_mul_1000(time)
    IN  IF Len(f) = 2 /\ f[1] > 0 /\ f[2] < 0 /\ -f[2] <= 24
        THEN LET v == round_shift(f[1], -f[2])
             IN  <<v \div 65536, v % 65536>>
        ELSE as_u32(f)

\* (time * 1000.0) as u32
millis(time) == as_u32(f32_mul_1000(time))

\* for &(time, ref cb) in gen.callbacks.iter() { pgen.add_update_callback(..) }
RECURSIVE add_update_callbacks(_, _)
add_update_callbacks(pgen, callbacks) ==
    IF callbacks = <<>>
    THEN pgen
    ELSE add_update_callbacks(
             add_update_callback(pgen, Head(callbacks)[2], millis(Head(callbacks)[1])),
             Tail(callbacks))

ImageNotFound ==
    [ from |-> "ScriptParticleGenerator",
      to |-> "ParticleGenerator",
      message |-> Some("Image not found") ]

\* the part of create_pgen after the image has been resolved
build_pgen(self, image, model) ==
    LET parent == entity(self.parent)
        pgen0 == particle_generator_new(parent, image, model)
        pgen1 == IF is_some(self.completion_callback)
                 THEN add_completion_callback(pgen0, unwrap(self.completion_callback))
                 ELSE pgen0
    IN  add_update_callbacks(pgen1, self.callbacks)

\* builds the generator without an image instead of returning the error
create_pgen_unchecked(self, model) ==
    LET image == get_image(self.image)
    IN  Ok(build_pgen(self, IF is_none(image) THEN "" ELSE unwrap(image), model))

create_pgen(self, model) ==
    LET image == get_image(self.image)
    IN  IF is_none(image)
        THEN Err(ImageNotFound)
        ELSE Ok(build_pgen(self, unwrap(image), model))

\* n as f32, for an i32 n
as_f32(n) == f32_round(n)

\* offsets both axes by x
create_surface_pgen_x_only(self, x, y) ==
    LET model0 == owned_model(self)
        x_param == offset(model0.position[1], as_f32(x))
        y_param == offset(model0.position[2], as_f32(x))
        model == [model0 EXCEPT !.position = <<x_param, y_param>>]
    IN  create_pgen(self, model)

create_surface_pgen(self, x, y) ==
    LET model0 == owned_model(self)
        x_param == offset(model0.position[1], as_f32(x))
        y_param == offset(model0.position[2], as_f32(y))
        model == [model0 EXCEPT !.position = <<x_param, y_param>>]
    IN  create_pgen(self, model)

\* GameState::add_animation(pgen)
add_animation(anims, pgen) == Append(anims, pgen)

----------------------------------------------------------------------------
(* Inputs of the script calls *)

\* <<constructor, parent, image, duration_millis>>
ConstructorInputs == { <<"new", 0, "particles/circle4", Infinity>>,
                       <<"new_anim", 1, "particles/circle4", ExtInt(500)>>,
                       <<"new", 1, "no_such_image", Infinity>>,
                       <<"new_anim", 0, "no_such_image", ExtInt(500)>> }

ParamInputs == { param(<<0, None, None, None>>).val,
                 param(<<2, Some(1), None, None>>).val }

PositionInputs == { <<fixed(3), fixed(5)>>, <<with_speed(0, 1), with_accel(7, 0, 2)>> }

ColorInputs == { <<fixed(0), fixed(1), fixed(0), None>>,
                 <<with_speed(1, 1), fixed(0), fixed(1), None>>,
                 <<fixed(0), fixed(0), fixed(1), Some(with_speed(0, 1))>> }

CallbackDataInputs == {"on_hit", "on_end"}

\* 1.5 s; 1.515625 s (1515.625 ms); -1.5 s; 1.13899993896484375 s, whose
\* product with 1000 is 1138.99993896484375 and rounds to the f32 1139.0;
\* 4294976.0 s, whose product is beyond u32::MAX
AddCallbackInputs == { <<"on_hit", <<3, -1>>>>,
                       <<"on_end", <<3, -1>>>>,
                       <<"on_hit", <<97, -6>>>>,
                       <<"on_end", <<-3, -1>>>>,
                       <<"on_hit", <<149291, -17>>>>,
                       <<"on_end", <<67109, 6>>>> }

DistInputs == { create_uniform(0, 2) }

GenRateInputs == { param(<<5, None, None, None>>).val }

RotationInputs == { param(<<0, Some(1), None, None>>).val }

InitialGenInputs == {2}

PositionDistInputs ==
    { <<dist_param(<<create_angular(0, 3, 1, 2), Some(create_fixed(1)), None, None>>).val, None>>,
      <<dist_param(<<create_uniform(0, 2), None, None, None>>).val,
        Some(dist_param(<<create_fixed(1), Some(create_uniform(0, 2)), None, None>>).val)>> }

SizeDistInputs == { <<create_uniform(0, 2), create_fixed(1)>> }

\* small coordinates, and two that are no f32: -(2^24 + 1) lies midway
\* between two f32 values, 2^25 + 3 is nearest to the f32 above it
SurfaceInputs == { <<1, 2>>, <<-16777217, 33554435>> }

ParamValueInputs == {0, 1, 2}

OptionalFloatInputs == {None, Some(0), Some(1), Some(3)}

ParamArgInputs == ParamValueInputs \X OptionalFloatInputs \X OptionalFloatInputs \X OptionalFloatInputs

----------------------------------------------------------------------------
(* The script's calls as actions *)

\* the runtime instances hold a reference to the source model instead of a copy
add_method_mut_shared(name, args, self) ==
    /\ Len(script) < MaxCalls
    /\ gen' = self
    /\ animations' = [i \in DOMAIN animations |-> [animations[i] EXCEPT !.model = self.model]]
    /\ script' = Append(script, <<name, args>>)
    /\ ret' = Ok(Unit)
    /\ UNCHANGED <<param_args, param_ret, other_vars>>

\* methods.add_method_mut(name, |_, gen, args| { ...; Ok(()) }): the closure
\* gets the generator mutably and nothing else
add_method_mut(name, args, self) ==
    /\ Len(script) < MaxCalls
    /\ gen' = self
    /\ animations' = animations
    /\ script' = Append(script, <<name, args>>)
    /\ ret' = Ok(Unit)
    /\ UNCHANGED <<param_args, param_ret, other_vars>>

call_set_blocking ==
    \E block \in BOOLEAN : add_method_mut("set_blocking", <<block>>, set_blocking(gen, block))

call_set_draw_below_entities ==
    add_method_mut("set_draw_below_entities", <<>>, set_draw_below_entities(gen))

call_set_draw_above_entities ==
    add_method_mut("set_draw_above_entities", <<>>, set_draw_above_entities(gen))

call_set_initial_gen ==
    \E value \in InitialGenInputs : add_method_mut("set_initial_gen", <<value>>, set_initial_gen(gen, value))

call_set_moves_with_parent ==
    add_method_mut("set_moves_with_parent", <<>>, set_moves_with_parent(gen))

call_set_gen_rate ==
    \E rate \in GenRateInputs : add_method_mut("set_gen_rate", <<rate>>, set_gen_rate(gen, rate))

call_set_position ==
    \E xy \in PositionInputs :
        add_method_mut("set_position", xy, set_position(gen, xy[1], xy[2]))

call_set_rotation ==
    \E rotation \in RotationInputs :
        add_method_mut("set_rotation", <<rotation>>, set_rotation(gen, rotation))

call_set_color ==
    \E c \in ColorInputs :
        add_method_mut("set_color", c, set_color(gen, c[1], c[2], c[3], c[4]))

call_set_alpha ==
    \E a \in ParamInputs : add_method_mut("set_alpha", <<a>>, set_alpha(gen, a))

call_set_completion_callback ==
    \E cb \in CallbackDataInputs :
        add_method_mut("set_completion_callback", <<cb>>, set_completion_callback(gen, cb))

call_add_callback ==
    \E a \in AddCallbackInputs :
        add_method_mut("add_callback", a, add_callback(gen, a[1], a[2]))

call_set_particle_position_dist ==
    \E xy \in PositionDistInputs :
        add_method_mut("set_particle_position_dist", xy,
                       set_particle_position_dist(gen, xy[1], xy[2]))

call_set_particle_duration_dist ==
    \E value \in DistInputs :
        add_method_mut("set_particle_duration_dist", <<value>>,
                       set_particle_duration_dist(gen, value))

call_set_particle_size_dist ==
    \E wh \in SizeDistInputs :
        add_method_mut("set_particle_size_dist", wh,
                       set_particle_size_dist(gen, wh[1], wh[2]))

call_set_particle_frame_time_offset_dist ==
    \E value \in DistInputs :
        add_method_mut("set_particle_frame_time_offset_dist", <<value>>,
                       set_particle_frame_time_offset_dist(gen, value))

\* moves the scheduled callbacks into the runtime instance instead of cloning them
activate_moving ==
    /\ Len(script) < MaxCalls
    /\ LET pgen == create_pgen(gen, owned_model(gen))
       IN  IF pgen.ok
           THEN /\ animations' = add_animation(animations, pgen.val)
                /\ gen' = [gen EXCEPT !.callbacks = <<>>]
                /\ ret' = Ok(Unit)
           ELSE /\ animations' = animations
                /\ gen' = gen
                /\ ret' = pgen
    /\ script' = Append(script, <<"activate", <<>>>>)
    /\ UNCHANGED <<param_args, param_ret, other_vars>>

\* activate(): create_pgen(gen, gen.model.clone())?; GameState::add_animation(pgen); Ok(())
activate ==
    /\ Len(script) < MaxCalls
    /\ LET pgen == create_pgen(gen, owned_model(gen))
       IN  IF pgen.ok
           THEN /\ animations' = add_animation(animations, pgen.val)
                /\ ret' = Ok(Unit)
           ELSE /\ animations' = animations
                /\ ret' = pgen
    /\ script' = Append(script, <<"activate", <<>>>>)
    /\ UNCHANGED <<gen, param_args, param_ret, other_vars>>

\* create_surface_pgen(gen, x, y) called by the host: the Anim goes back to the caller
call_create_surface_pgen ==
    /\ Len(script) < MaxCalls
    /\ \E xy \in SurfaceInputs :
          /\ ret' = create_surface_pgen(gen, xy[1], xy[2])
          /\ script' = Append(script, <<"create_surface_pgen", xy>>)
    /\ UNCHANGED <<gen, animations, param_args, param_ret, other_vars>>

\* gen:param(value, dt, d2t, d3t) with the arguments chosen initially
call_param ==
    /\ is_none(param_ret)
    /\ param_ret' = Some(param(param_args))
    /\ UNCHANGED <<gen, animations, script, ret, param_args, other_vars>>

----------------------------------------------------------------------------
(* Specifications *)

\* no dist_param call is under way
DistIdle ==
    /\ dist_args = <<create_fixed(0), None, None, None>>
    /\ dist_ret = Some(dist_param(dist_args))

\* an ItemButton without an item, which no event has reached
ButtonIdle ==
    /\ button = [item_window |-> None, item_index |-> None, prop_index |-> None,
                 mouse_inside |-> FALSE]
    /\ windows = <<>>
    /\ event = <<"new", <<>>, TRUE>>

\* Slot::iter(): the equipment slots, by their Debug names
Slots == <<"Head", "Torso", "HeldMain">>

SlotSet == {Slots[i] : i \in 1..Len(Slots)}

\* an empty inventory and an InventoryWindow not yet added
InventoryIdle ==
    /\ inventory = [items |-> <<>>, equipped |-> [slot \in SlotSet |-> None]]
    /\ window = [listeners |-> {}, children |-> None]

\* the components outside the particle generator are at rest
OthersIdle == DistIdle /\ ButtonIdle /\ InventoryIdle

\* a generator fresh from ScriptEntity:create_particle_generator / create_anim
Init ==
    /\ \E a \in ConstructorInputs :
          gen = IF a[1] = "new" THEN new(a[2], a[3], a[4]) ELSE new_anim(a[2], a[3], a[4])
    /\ animations = <<>>
    /\ script = <<>>
    /\ ret = Ok(Unit)
    /\ param_args = <<0, None, None, None>>
    /\ param_ret = Some(param(param_args))
    /\ OthersIdle

Next ==
    \/ call_set_blocking
    \/ call_set_draw_below_entities
    \/ call_set_draw_above_entities
    \/ call_set_initial_gen
    \/ call_set_moves_with_parent
    \/ call_set_gen_rate
    \/ call_set_position
    \/ call_set_rotation
    \/ call_set_color
    \/ call_set_alpha
    \/ call_set_completion_callback
    \/ call_add_callback
    \/ call_set_particle_position_dist
    \/ call_set_particle_duration_dist
    \/ call_set_particle_size_dist
    \/ call_set_particle_frame_time_offset_dist
    \/ activate
    \/ call_create_surface_pgen

Spec == Init /\ [][Next]_vars

\* the pure function param over every combination of arguments
InitParam ==
    /\ gen = new(0, "particles/circle4", Infinity)
    /\ animations = <<>>
    /\ script = <<>>
    /\ ret = Ok(Unit)
    /\ param_args \in ParamArgInputs
    /\ param_ret = None
    /\ OthersIdle

NextParam == call_param

SpecParam == InitParam /\ [][NextParam]_vars

----------------------------------------------------------------------------
(* dist_param as a pure function *)

DistValueInputs == { create_fixed(1), create_uniform(0, 2), create_angular(0, 3, 1, 2) }

OptionalDistInputs ==
    { None, Some(create_fixed(0)), Some(create_fixed(2)), Some(create_uniform(1, 3)) }

DistArgInputs ==
    DistValueInputs \X OptionalDistInputs \X OptionalDistInputs \X OptionalDistInputs

\* gen:dist_param(value, dt, d2t, d3t) with the arguments chosen initially
call_dist_param ==
    /\ is_none(dist_ret)
    /\ dist_ret' = Some(dist_param(dist_args))
    /\ UNCHANGED <<gen, animations, script, ret, param_args, param_ret, dist_args, item_vars,
                   inventory_vars>>

\* the generator and param at rest
GeneratorIdle ==
    /\ gen = new(0, "particles/circle4", Infinity)
    /\ animations = <<>>
    /\ script = <<>>
    /\ ret = Ok(Unit)
    /\ param_args = <<0, None, None, None>>
    /\ param_ret = Some(param(param_args))

InitDistParam ==
    /\ GeneratorIdle
    /\ dist_args \in DistArgInputs
    /\ dist_ret = None
    /\ ButtonIdle
    /\ InventoryIdle

NextDistParam == call_dist_param

SpecDistParam == InitDistParam /\ [][NextDistParam]_vars

----------------------------------------------------------------------------
(* ItemButton (inventory_window.rs): the item window shown while the mouse  *)
(* is over the button.  An index of the source (0-based) is kept as it is   *)
(* and one is added where it indexes a sequence.                            *)

\* Most item windows one button creates.
MaxWindows == 3

\* pc.actor.inventory().items: the name of each item
pc_items == <<"sword", "potion">>

\* area_state.props[prop_index].items: the name of each item of each prop
prop_items == << <<"gem", "key">> >>

\* <<item_index, prop_index>> of ItemButton::new, each index inside its list
ItemButtonInputs == { <<None, None>>, <<Some(0), None>>, <<Some(1), None>>, <<Some(1), Some(0)>> }

ClickKindInputs == {"Left", "Right", "Middle"}

\* ItemButton::new(index, prop_index)
ItemButton_new(index, prop_index) ==
    [item_window |-> None, item_index |-> index, prop_index |-> prop_index,
     mouse_inside |-> FALSE]

\* Widget::mark_for_removal on the w-th child of the root
mark_for_removal(ws, w) == [ws EXCEPT ![w].marked_for_removal = TRUE]

\* drops the reference without marking the window
remove_item_window_unmarked(self, ws) ==
    IF is_some(self.item_window)
    THEN [button |-> [self EXCEPT !.item_window = None], windows |-> ws]
    ELSE [button |-> self, windows |-> ws]

\* ItemButton::remove_item_window: the button and the root's windows afterwards
remove_item_window(self, ws) ==
    IF is_some(self.item_window)
    THEN [button |-> [self EXCEPT !.item_window = None],
          windows |-> mark_for_removal(ws, unwrap(self.item_window))]
    ELSE [button |-> self, windows |-> ws]

\* the item state on_mouse_enter looks up
item_name(self) ==
    IF is_none(self.prop_index)
    THEN pc_items[unwrap(self.item_index) + 1]
    ELSE prop_items[unwrap(self.prop_index) + 1][unwrap(self.item_index) + 1]

\* Widget::with_theme(TextArea::empty(), "item_window"), disabled and filled in
item_window_new(self) ==
    [theme |-> "item_window", enabled |-> FALSE, name |-> item_name(self),
     marked_for_removal |-> FALSE]

\* ItemButton::on_mouse_enter
on_mouse_enter ==
    LET entered == [button EXCEPT !.mouse_inside = TRUE]
    IN  /\ IF is_some(button.item_index) /\ is_none(button.item_window)
           THEN /\ Len(windows) < MaxWindows
                /\ windows' = Append(windows, item_window_new(button))
                /\ button' = [entered EXCEPT !.item_window = Some(Len(windows) + 1)]
           ELSE /\ windows' = windows
                /\ button' = entered
        /\ event' = <<"on_mouse_enter", <<>>, TRUE>>
        /\ UNCHANGED <<gen, animations, script, ret, param_args, param_ret, dist_args, dist_ret, inventory_vars>>

\* ItemButton::on_mouse_exit
on_mouse_exit ==
    LET exited == [button EXCEPT !.mouse_inside = FALSE]
        removed == remove_item_window(exited, windows)
    IN  /\ button' = removed.button
        /\ windows' = removed.windows
        /\ event' = <<"on_mouse_exit", <<>>, TRUE>>
        /\ UNCHANGED <<gen, animations, script, ret, param_args, param_ret, dist_args, dist_ret, inventory_vars>>

\* ItemButton::on_mouse_release: the inner Button handles the click afterwards
\* and its answer (Button is outside this file: either one) is returned
on_mouse_release ==
    \E kind \in ClickKindInputs :
        LET removed == remove_item_window(button, windows)
        IN  /\ button' = removed.button
            /\ windows' = removed.windows
            /\ \E handled \in BOOLEAN : event' = <<"on_mouse_release", <<kind>>, handled>>
            /\ UNCHANGED <<gen, animations, script, ret, param_args, param_ret,
                           dist_args, dist_ret, inventory_vars>>

\* ItemButton::on_remove
on_remove ==
    LET removed == remove_item_window(button, windows)
    IN  /\ button' = removed.button
        /\ windows' = removed.windows
        /\ event' = <<"on_remove", <<>>, TRUE>>
        /\ UNCHANGED <<gen, animations, script, ret, param_args, param_ret, dist_args, dist_ret, inventory_vars>>

InitItemButton ==
    /\ GeneratorIdle
    /\ DistIdle
    /\ InventoryIdle
    /\ \E a \in ItemButtonInputs : button = ItemButton_new(a[1], a[2])
    /\ windows = <<>>
    /\ event = <<"new", <<>>, TRUE>>

NextItemButton ==
    \/ on_mouse_enter
    \/ on_mouse_exit
    \/ on_mouse_release
    \/ on_remove

SpecItemButton == InitItemButton /\ [][NextItemButton]_vars

----------------------------------------------------------------------------
(* InventoryWindow::on_add (inventory_window.rs): the widgets built from    *)
(* the actor's inventory.                                                   *)

\* Most items in the inventory.
MaxItems == 2

NAME == "inventory_window"

\* an item: its icon and the slot it can be equipped in, if any
ItemInputs ==
    { [icon |-> "sword", equippable |-> Some("HeldMain")],
      [icon |-> "helm", equippable |-> Some("Head")],
      [icon |-> "mail", equippable |-> Some("Torso")],
      [icon |-> "potion", equippable |-> None] }

\* the inventories: a slot holds the index of an item that fits it
InventoryInputs ==
    { inv \in [ items : UNION {[1..n -> ItemInputs] : n \in 0..MaxItems},
                equipped : [SlotSet -> {None} \cup {Some(i) : i \in 0..(MaxItems - 1)}] ] :
        \A slot \in SlotSet :
            is_some(inv.equipped[slot]) =>
                /\ unwrap(inv.equipped[slot]) < Len(inv.items)
                /\ inv.items[unwrap(inv.equipped[slot]) + 1].equippable = Some(slot) }

\* Inventory::is_equipped(index)
is_equipped(inv, index) == \E slot \in SlotSet : inv.equipped[slot] = Some(index)

\* Inventory::get_index(slot)
get_index(inv, slot) == inv.equipped[slot]

\* Inventory::get(slot)
get(inv, slot) ==
    IF is_none(inv.equipped[slot]) \/ unwrap(inv.equipped[slot]) >= Len(inv.items)
    THEN None
    ELSE Some(inv.items[unwrap(inv.equipped[slot]) + 1])

\* format!("{:?}_button", slot).to_lowercase()
theme_id(slot) ==
    CASE slot = "Head" -> "head_button"
      [] slot = "Torso" -> "torso_button"
      [] slot = "HeldMain" -> "heldmain_button"

\* a widget holding an ItemButton: Widget::with_defaults / Widget::with_theme
button_widget(theme, index) ==
    [ theme |-> theme,
      kind |-> ItemButton_new(index, None),
      enabled |-> TRUE,
      text_args |-> <<>>,
      callbacks |-> <<>> ]

\* the button of the item at `index` in the items list
list_button(inv, index) ==
    LET item == inv.items[index + 1]
        widget == [button_widget("item_button", Some(index))
                      EXCEPT !.text_args = << <<"icon", item.icon>> >>]
    IN  IF is_some(item.equippable)
        THEN [widget EXCEPT !.callbacks = << <<"equip", index>> >>]
        ELSE widget

\* lists the equipped items as well
RECURSIVE items_list_all(_, _)
items_list_all(inv, index) ==
    IF index >= Len(inv.items)
    THEN <<>>
    ELSE <<list_button(inv, index)>> \o items_list_all(inv, index + 1)

\* for (index, item) in items.iter().enumerate(): the children of items_list
\* from `index` on
RECURSIVE items_list(_, _)
items_list(inv, index) ==
    IF index >= Len(inv.items)
    THEN <<>>
    ELSE IF is_equipped(inv, index)
    THEN items_list(inv, index + 1)
    ELSE <<list_button(inv, index)>> \o items_list(inv, index + 1)

\* the button of one slot in the equipped area
slot_button(inv, slot) ==
    LET widget == [button_widget(theme_id(slot), get_index(inv, slot))
                      EXCEPT !.callbacks = << <<"unequip", slot>> >>]
        item_state == get(inv, slot)
    IN  IF is_none(item_state)
        THEN [widget EXCEPT !.enabled = FALSE]
        ELSE [widget EXCEPT !.text_args = << <<"icon", unwrap(item_state).icon>> >>]

\* for slot in Slot::iter(): the children of equipped_area
equipped_area(inv) == [i \in 1..Len(Slots) |-> slot_button(inv, Slots[i])]

\* InventoryWindow::on_add: vec![title, close, equipped_area, list_content]
InventoryWindow_on_add ==
    /\ is_none(window.children)
    /\ window' = [ listeners |-> window.listeners \cup {NAME},
                   children |-> Some([ title |-> "title",
                                       close |-> "close",
                                       equipped_area |-> equipped_area(inventory),
                                       items_list |-> items_list(inventory, 0) ]) ]
    /\ UNCHANGED <<gen, animations, script, ret, param_args, param_ret,
                   dist_args, dist_ret, item_vars, inventory>>

\* InventoryWindow::on_remove: the widget is gone with its children
InventoryWindow_on_remove ==
    /\ is_some(window.children)
    /\ window' = [listeners |-> window.listeners \ {NAME}, children |-> None]
    /\ UNCHANGED <<gen, animations, script, ret, param_args, param_ret,
                   dist_args, dist_ret, item_vars, inventory>>

InitInventory ==
    /\ GeneratorIdle
    /\ DistIdle
    /\ ButtonIdle
    /\ inventory \in InventoryInputs
    /\ window = [listeners |-> {}, children |-> None]

NextInventory ==
    \/ InventoryWindow_on_add
    \/ InventoryWindow_on_remove

SpecInventory == InitInventory /\ [][NextInventory]_vars

----------------------------------------------------------------------------
(* Vocabulary of the properties *)

lastCall == IF script = <<>> THEN "new" ELSE script[Len(script)][1]

lastArgs == IF script = <<>> THEN <<>> ELSE script[Len(script)][2]

\* the step is a call of the method `name`
Step(name) == Len(script') = Len(script) + 1 /\ script'[Len(script')][1] = name

StepArgs == script'[Len(script')][2]

SetterNames ==
    { "set_blocking", "set_draw_below_entities", "set_draw_above_entities",
      "set_initial_gen", "set_moves_with_parent", "set_gen_rate", "set_position",
      "set_rotation", "set_color", "set_alpha", "set_completion_callback",
      "add_callback", "set_particle_position_dist", "set_particle_duration_dist",
      "set_particle_size_dist", "set_particle_frame_time_offset_dist" }

ImageResolves == is_some(get_image(gen.image))

\* the calls of `name` among the first n calls of the script, in order
CallsOf(name, n) == SelectSeq(SubSeq(script, 1, n), LAMBDA c : c[1] = name)

\* the positions in the script of the activate() calls, in order
ActivatePositions ==
    SelectSeq([i \in 1..Len(script) |-> i], LAMBDA i : script[i][1] = "activate")

\* the u32 u is the integer n, 0 <= n < 2^31
U32Is(u, n) == u = <<n \div 65536, n % 65536>>

\* the u32 u is q * 2^k, for integers q >= 0 and k >= 0
IsTimesPow2(u, q, k) ==
    IF bits(q) + k > 32 THEN FALSE
    ELSE IF k = 0 THEN U32Is(u, q)
    ELSE IF k <= 16
    THEN u[2] % pow2(k) = 0 /\ u[1] * pow2(16 - k) + u[2] \div pow2(k) = q
    ELSE u[2] = 0 /\ u[1] = q * pow2(k - 16)

\* the u32 u is the integer part of q * 2^k, for integers q >= 0 and k
IntegerPartOf(u, q, k) ==
    IF k >= 0 THEN IsTimesPow2(u, q, k)
    ELSE U32Is(u, IF -k > 30 THEN 0 ELSE q \div pow2(-k))

\* the f32 nearest to n * 2^e, n >= 0, as <<q, k>> standing for q * 2^k: the
\* multiple of the f32 spacing at n that no other multiple is nearer to, the
\* even multiple of two that are equally near
NearestF32(n, e) ==
    LET k == IF bits(n) > 24 THEN bits(n) - 24 ELSE 0
        below == n \div pow2(k)
        Multiples == {below, below + 1}
        Away(c) == IF c * pow2(k) < n THEN n - c * pow2(k) ELSE c * pow2(k) - n
        q == CHOOSE c \in Multiples :
                 \A d \in Multiples :
                     \/ Away(c) < Away(d)
                     \/ (Away(c) = Away(d) /\ (c = d \/ c % 2 = 0))
    IN  <<q, e + k>>

\* u is the integer part of seconds * 1000, the product being exact (a
\* negative integer part is no u32, and neither is one from 2^32 up)
IntegerPartMillis(time, u) ==
    /\ Len(time) = 2
    /\ IF time[1] >= 0
       THEN IntegerPartOf(u, time[1] * 1000, time[2])
       ELSE u = u32_MIN /\ IntegerPartOf(u32_MIN, -time[1] * 1000, time[2])

\* u is the integer part of the f32 product seconds * 1000.0, which is the
\* f32 nearest to the exact product; 0 for a negative time or NaN and
\* u32::MAX for a product from 2^32 up
HandedOffMillis(time, u) ==
    IF time = f32_nan \/ time = f32_neg_infinity THEN u = u32_MIN
    ELSE IF time = f32_infinity THEN u = u32_MAX
    ELSE IF time[1] < 0 THEN u = u32_MIN
    ELSE LET product == NearestF32(time[1] * 1000, time[2])
         IN  IF product[2] >= 0 /\ bits(product[1]) + product[2] > 32
             THEN u = u32_MAX
             ELSE IntegerPartOf(u, product[1], product[2])

\* the f32 spacing around the integer x (0 where every integer is an f32)
Spacing(x) ==
    LET a == IF x < 0 THEN -x ELSE x
    IN  IF bits(a) > 24 THEN pow2(bits(a) - 24) ELSE 0

\* the integer x as an f32: x itself where every integer is an f32, otherwise
\* the nearer of the two multiples of the spacing around x, the even
\* multiple when x lies midway
NearestF32Int(x) ==
    LET a == IF x < 0 THEN -x ELSE x
        sp == Spacing(x)
        below == a - (a % sp)
        above == below + sp
        near == IF a - below < above - a THEN below
                ELSE IF a - below > above - a THEN above
                ELSE IF (below \div sp) % 2 = 0 THEN below ELSE above
    IN  IF sp = 0 THEN x ELSE IF x < 0 THEN -near ELSE near

EvalTimes == 0..2

LastAnimation == animations[Len(animations)]

----------------------------------------------------------------------------
(* C1 *)

\* C1: activate() on a generator whose image identifier does not resolve
\* returns the image-not-found error to the caller and registers nothing:
\* the registered animations (and with them every handed-off completion and
\* update callback) are the same after the call as before it.
C1_FailedActivateRegistersNothing ==
    [][(Step("activate") /\ ~ImageResolves)
          => /\ ~ret'.ok
             /\ ret'.err = ImageNotFound
             /\ animations' = animations
             /\ gen' = gen]_vars

\* a failed activate() of a generator that carries a completion callback and
\* a scheduled callback
C1_Witness ==
    /\ lastCall = "activate"
    /\ ~ret.ok
    /\ ~ImageResolves
    /\ is_some(gen.completion_callback)
    /\ Len(gen.callbacks) > 0
    /\ animations = <<>>

----------------------------------------------------------------------------
(* C2 *)

\* C2: a registered runtime instance is a copy of the configuration at the
\* moment of activate(); no later call (setter or otherwise) changes its
\* model or its handed-off callbacks.
C2_RegisteredInstanceIsFrozen ==
    [][/\ \A i \in 1..Len(animations) :
              i <= Len(animations') /\ animations'[i] = animations[i]
       /\ (Step("activate") /\ ret'.ok)
              => /\ Len(animations') = Len(animations) + 1
                 /\ animations'[Len(animations')].model = gen.model]_vars

\* setters have changed the model and the callbacks of the source generator
\* after an activation
C2_Witness ==
    /\ Len(animations) = 1
    /\ script[1][1] = "activate"
    /\ animations[1].model # gen.model
    /\ Len(animations[1].update_callbacks) # Len(gen.callbacks)

----------------------------------------------------------------------------
(* C3 *)

\* C3: activate() leaves every field of the generator unchanged, and two
\* activate() calls in a row register two separate instances with equal
\* configuration and equal callbacks.
C3_ActivateKeepsGenerator ==
    [][Step("activate")
          => /\ gen' = gen
             /\ ret'.ok => Len(animations') = Len(animations) + 1
             /\ (lastCall = "activate" /\ ret.ok)
                   => /\ ret'.ok
                      /\ animations'[Len(animations')] = animations[Len(animations)]]_vars

\* two activations in a row of a generator with a scheduled callback
C3_Witness ==
    /\ Len(script) >= 2
    /\ lastCall = "activate"
    /\ script[Len(script) - 1][1] = "activate"
    /\ Len(animations) = 2
    /\ animations[1] = animations[2]
    /\ Len(animations[2].update_callbacks) > 0
    /\ Len(gen.callbacks) > 0

----------------------------------------------------------------------------
(* C4 *)

\* the add_callback calls that precede the k-th activate() of the script
ScheduledBefore(k) == CallsOf("add_callback", ActivatePositions[k])

\* C4 as stated: every update callback of a registered instance carries the
\* integer part of seconds * 1000 of the add_callback call it stems from,
\* for every time added, sub-millisecond precision being dropped and never
\* rounded up.
C4_HandedTimeIsIntegerPart ==
    \A k \in 1..Len(animations) :
        \A i \in 1..Len(animations[k].update_callbacks) :
            IntegerPartMillis(ScheduledBefore(k)[i][2][2], animations[k].update_callbacks[i][2])

\* C4 as amended: the handed-off time is the integer part of the f32 product
\* seconds * 1000.0, the f32 nearest to the exact product (so a product that
\* rounds to the next whole millisecond is handed off as that millisecond);
\* a negative time is handed off as 0 and a product from 2^32 up as u32::MAX.
C4_HandedTimeIsTruncatedOrZero ==
    \A k \in 1..Len(animations) :
        \A i \in 1..Len(animations[k].update_callbacks) :
            HandedOffMillis(ScheduledBefore(k)[i][2][2], animations[k].update_callbacks[i][2])

\* a registered instance holds 1.13899993896484375 s as 1139 ms and -1.5 s
\* as 0 ms
C4_Witness ==
    /\ Len(animations) = 1
    /\ lastCall = "activate"
    /\ gen.callbacks = << <<<<149291, -17>>, "on_hit">>, <<<<-3, -1>>, "on_end">> >>
    /\ animations[1].update_callbacks = << <<"on_hit", <<0, 1139>>>>, <<"on_end", <<0, 0>>>> >>

----------------------------------------------------------------------------
(* C5 *)

\* C5: the scheduled set holds exactly the add_callback calls made so far,
\* one entry per call in call order (equal times and equal callbacks
\* included), and every registered instance holds one update callback per
\* add_callback call made before its activation, in the same order, with the
\* callback of that call and its time converted to milliseconds.
C5_CallbacksAreAppendedAndHandedOff ==
    /\ LET adds == CallsOf("add_callback", Len(script))
       IN  /\ Len(gen.callbacks) = Len(adds)
           /\ \A i \in 1..Len(adds) : gen.callbacks[i] = <<adds[i][2][2], adds[i][2][1]>>
    /\ ImageResolves => Len(animations) = Len(ActivatePositions)
    /\ \A k \in 1..Len(animations) :
           LET adds == ScheduledBefore(k)
               handed == animations[k].update_callbacks
           IN  /\ Len(handed) = Len(adds)
               /\ \A i \in 1..Len(adds) :
                      /\ handed[i][1] = adds[i][2][1]
                      /\ HandedOffMillis(adds[i][2][2], handed[i][2])

\* two add_callback calls with the same time, then an activation that hands
\* off both
C5_Witness ==
    /\ lastCall = "activate"
    /\ ret.ok
    /\ Len(gen.callbacks) = 2
    /\ gen.callbacks[1][1] = gen.callbacks[2][1]
    /\ gen.callbacks[1][2] # gen.callbacks[2][2]
    /\ Len(LastAnimation.update_callbacks) = 2

----------------------------------------------------------------------------
(* C6 *)

\* the completion callbacks an activation hands off after the first n calls
CompletionAfter(n) ==
    LET sets == CallsOf("set_completion_callback", n)
    IN  IF sets = <<>> THEN None ELSE Some(sets[Len(sets)][2][1])

\* C6: the generator's completion callback is the one of the most recent
\* set_completion_callback call (none when there was no such call), and every
\* registered instance was handed exactly that one callback, or none.
C6_CompletionCallbackLastWriteWins ==
    /\ gen.completion_callback = CompletionAfter(Len(script))
    /\ \A k \in 1..Len(animations) :
           LET cb == CompletionAfter(ActivatePositions[k])
           IN  animations[k].completion_callbacks =
                   IF is_none(cb) THEN <<>> ELSE <<unwrap(cb)>>

\* two set_completion_callback calls with different callbacks, then an
\* activation that hands off the second
C6_Witness ==
    /\ Len(script) = 3
    /\ script[1] = <<"set_completion_callback", <<"on_hit">>>>
    /\ script[2] = <<"set_completion_callback", <<"on_end">>>>
    /\ script[3][1] = "activate"
    /\ Len(animations) = 1
    /\ animations[1].completion_callbacks = <<"on_end">>

\* an activation with no completion callback set hands off none
C6_WitnessNone ==
    /\ lastCall = "activate"
    /\ ret.ok
    /\ is_none(gen.completion_callback)
    /\ LastAnimation.completion_callbacks = <<>>

----------------------------------------------------------------------------
(* C7 *)

\* C7: after set_color with the alpha argument omitted the generator's alpha
\* parameter is the fixed value 1.0 and evaluates to 1.0 at every t,
\* whatever was called before.
C7_ThreeArgumentSetColorGivesAlphaOne ==
    (lastCall = "set_color" /\ is_none(lastArgs[4]))
        => /\ gen.model.alpha = fixed(1)
           /\ \A t \in EvalTimes : evaluate(gen.model.alpha, t) = 1

----------------------------------------------------------------------------
(* C8 *)

\* the step's create_surface_pgen returned an instance whose x (y) position
\* parameter has the constant term cx (cy), all other coefficients and all
\* other model fields being the template's
TranslatedTo(cx, cy) ==
    LET model == ret'.val.model
    IN  /\ model.position[1].value = cx
        /\ model.position[2].value = cy
        /\ \A c \in {"dt", "d2t", "d3t"}, a \in 1..2 :
               model.position[a][c] = gen.model.position[a][c]
        /\ \A f \in (DOMAIN model) \ {"position"} : model[f] = gen.model[f]

\* the call before the step was a successful create_surface_pgen
AfterSurfaceCall == lastCall = "create_surface_pgen" /\ ret.ok

\* C8 as stated: create_surface_pgen(gen, x, y) leaves the template generator
\* and the registered animations unchanged; when the image resolves it
\* returns an instance whose x (y) position parameter has x (y) added to its
\* constant term, all other coefficients and all other model fields being
\* the template's; a call after another translates from the template's
\* position again, not from the instance the call before returned.
C8_SurfaceTranslationAddsArguments ==
    [][Step("create_surface_pgen")
          => /\ gen' = gen
             /\ animations' = animations
             /\ ret'.ok = ImageResolves
             /\ ret'.ok =>
                  /\ TranslatedTo(gen.model.position[1].value + StepArgs[1],
                                  gen.model.position[2].value + StepArgs[2])
                  /\ (AfterSurfaceCall /\ lastArgs = StepArgs) => ret'.val = ret.val]_vars

\* C8 as amended: the same, in f32 arithmetic: the x (y) constant term of the
\* instance is the f32 nearest to the sum of the template's constant term and
\* the f32 nearest to x (y).  Where x (y) and the sum have at most 24 bits
\* that is the template's constant term plus x (y).
C8_SurfaceTranslationFromTemplate ==
    [][Step("create_surface_pgen")
          => /\ gen' = gen
             /\ animations' = animations
             /\ ret'.ok = ImageResolves
             /\ ret'.ok =>
                  /\ TranslatedTo(
                         NearestF32Int(gen.model.position[1].value + NearestF32Int(StepArgs[1])),
                         NearestF32Int(gen.model.position[2].value + NearestF32Int(StepArgs[2])))
                  /\ \A a \in 1..2 :
                         LET sum == gen.model.position[a].value + StepArgs[a]
                         IN  (Spacing(StepArgs[a]) = 0 /\ Spacing(sum) = 0)
                                 => ret'.val.model.position[a].value = sum
                  /\ (AfterSurfaceCall /\ lastArgs = StepArgs) => ret'.val = ret.val]_vars

\* a moving template replayed at two different origins, one after the other,
\* the second with coordinates that are no f32: -(2^24 + 1) converts to -2^24
\* and 2^25 + 3 to 2^25 + 4, and the sum 7 + 2^25 + 4 is no f32 either, the
\* nearest being 2^25 + 12
C8_Witness ==
    /\ Len(script) = 3
    /\ script[1][1] = "set_position"
    /\ script[2] = <<"create_surface_pgen", <<1, 2>>>>
    /\ script[3] = <<"create_surface_pgen", <<-16777217, 33554435>>>>
    /\ ret.ok
    /\ gen.model.position = <<with_speed(0, 1), with_accel(7, 0, 2)>>
    /\ ret.val.model.position = <<with_speed(-16777216, 1), with_accel(33554444, 0, 2)>>

----------------------------------------------------------------------------
(* C9 *)

or_zero(o) == IF is_none(o) THEN 0 ELSE unwrap(o)

\* C9: param(value, dt?, d2t?, d3t?) never fails and returns the parameter
\* whose coefficients are the supplied arguments, each absent one being zero,
\* for every combination of present and absent optional arguments.
C9_ParamKeepsEverySuppliedCoefficient ==
    is_some(param_ret)
        => /\ unwrap(param_ret).ok
           /\ unwrap(param_ret).val =
                  [ value |-> param_args[1],
                    dt |-> or_zero(param_args[2]),
                    d2t |-> or_zero(param_args[3]),
                    d3t |-> or_zero(param_args[4]) ]

----------------------------------------------------------------------------
(* C10 *)

GeneratorFields == {"parent", "image", "completion_callback", "callbacks"}

ModelFields == DOMAIN gen.model

\* the value of a field of the generator or of its model
Field(self, f) == IF f \in GeneratorFields THEN self[f] ELSE self.model[f]

\* the fields a step changes
ChangedFields ==
    {f \in GeneratorFields \cup ModelFields : Field(gen', f) # Field(gen, f)}

\* what each setter is documented to assign, as field :> value
Assigns(name, args) ==
    CASE name = "set_blocking" -> "is_blocking" :> args[1]
      [] name = "set_draw_below_entities" -> "draw_above_entities" :> FALSE
      [] name = "set_draw_above_entities" -> "draw_above_entities" :> TRUE
      [] name = "set_initial_gen" -> "initial_overflow" :> args[1]
      [] name = "set_moves_with_parent" -> "moves_with_parent" :> TRUE
      [] name = "set_gen_rate" -> "gen_rate" :> args[1]
      [] name = "set_position" -> "position" :> <<args[1], args[2]>>
      [] name = "set_rotation" -> "rotation" :> Some(args[1])
      [] name = "set_color" ->
            IF is_none(args[4])
            THEN ("red" :> args[1]) @@ ("green" :> args[2]) @@ ("blue" :> args[3])
            ELSE ("red" :> args[1]) @@ ("green" :> args[2]) @@ ("blue" :> args[3])
                     @@ ("alpha" :> unwrap(args[4]))
      [] name = "set_alpha" -> "alpha" :> args[1]
      [] name = "set_completion_callback" -> "completion_callback" :> Some(args[1])
      [] name = "add_callback" -> "callbacks" :> Append(gen.callbacks, <<args[2], args[1]>>)
      [] name = "set_particle_position_dist" ->
            "particle_position_dist" :>
                Some([x |-> args[1], y |-> IF is_none(args[2]) THEN args[1] ELSE unwrap(args[2])])
      [] name = "set_particle_duration_dist" -> "particle_duration_dist" :> Some(args[1])
      [] name = "set_particle_size_dist" -> "particle_size_dist" :> Some(<<args[1], args[2]>>)
      [] name = "set_particle_frame_time_offset_dist" ->
            "particle_frame_time_offset_dist" :> Some(args[1])

\* C10 as stated: a setter call changes at most one field of the generator
\* (its model's fields included) and leaves every other field unchanged.
C10_SetterChangesOneField ==
    [][\A name \in SetterNames : Step(name) => Cardinality(ChangedFields) <= 1]_vars

\* C10 as amended: set_color assigns the three fields red, green and blue,
\* and alpha as a fourth when it is supplied; set_completion_callback and
\* add_callback assign the generator's completion_callback and callbacks
\* (not GeneratorModel fields); every other setter assigns exactly one
\* GeneratorModel field; every field a setter does not assign is unchanged.
C10_SetterAssignsOnlyItsFields ==
    [][\A name \in SetterNames :
          Step(name) =>
              LET assigned == Assigns(name, StepArgs)
              IN  /\ \A f \in DOMAIN assigned : Field(gen', f) = assigned[f]
                  /\ \A f \in (GeneratorFields \cup ModelFields) \ DOMAIN assigned :
                         Field(gen', f) = Field(gen, f)
                  /\ DOMAIN assigned \subseteq ModelFields
                         \/ name \in {"set_completion_callback", "add_callback"}
                  /\ Cardinality(DOMAIN assigned) = 1 \/ name = "set_color"]_vars

\* a four-argument set_color that changed red, green, blue and alpha at once
C10_Witness ==
    /\ Len(script) = 1
    /\ lastCall = "set_color"
    /\ is_some(lastArgs[4])
    /\ gen.model.red = lastArgs[1] /\ gen.model.red # fixed(1)
    /\ gen.model.green = lastArgs[2] /\ gen.model.green # fixed(1)
    /\ gen.model.blue = lastArgs[3]
    /\ gen.model.alpha = unwrap(lastArgs[4]) /\ gen.model.alpha # fixed(1)

----------------------------------------------------------------------------
(* C11 *)

CoefficientNames == <<"value", "dt", "d2t", "d3t">>

\* exactly the first k of the four arguments are supplied
LeadingSupplied(args, k) == \A i \in 2..4 : is_some(args[i]) <=> i <= k

\* C11: when exactly the first k distributions (k = 1..4) are supplied,
\* dist_param succeeds and its result has the supplied distributions as its
\* first k coefficients, in order, and Fixed(0.0) as the remaining 4 - k.
C11_DistParamDefaultsTrailingToFixedZero ==
    is_some(dist_ret) =>
        \A k \in 1..4 :
            LeadingSupplied(dist_args, k) =>
                /\ unwrap(dist_ret).ok
                /\ \A i \in 1..4 :
                       unwrap(dist_ret).val[CoefficientNames[i]] =
                           IF i > k THEN <<"Fixed", 0>>
                           ELSE IF i = 1 THEN dist_args[1]
                           ELSE unwrap(dist_args[i])

\* dist_param called with a value and a dt distribution only
C11_Witness ==
    /\ is_some(dist_ret)
    /\ LeadingSupplied(dist_args, 2)
    /\ dist_args[1] = create_angular(0, 3, 1, 2)
    /\ unwrap(dist_ret).val.dt = create_uniform(1, 3)
    /\ unwrap(dist_ret).val.d2t = create_fixed(0)
    /\ unwrap(dist_ret).val.d3t = create_fixed(0)

----------------------------------------------------------------------------
(* C12 *)

\* the windows not yet marked for removal
LiveWindows == {w \in 1..Len(windows) : ~windows[w].marked_for_removal}

\* C12: the only item window not marked for removal is the one the button
\* holds, so the button holds at most one and none it has dropped is left
\* unmarked; after on_mouse_exit, on_mouse_release and on_remove it holds
\* none; and a window is created only by on_mouse_enter on a button that has
\* an item index and holds no window, one window at a time.
C12_ItemWindowHeldOrMarked ==
    /\ [](/\ LiveWindows = IF is_some(button.item_window)
                           THEN {unwrap(button.item_window)}
                           ELSE {}
          /\ event[1] \in {"on_mouse_exit", "on_mouse_release", "on_remove"}
                 => is_none(button.item_window))
    /\ [][windows' # windows /\ Len(windows') >= Len(windows)
             => \/ /\ Len(windows') = Len(windows)
                   /\ is_none(button'.item_window)
                \/ /\ event'[1] = "on_mouse_enter"
                   /\ is_some(button.item_index)
                   /\ is_none(button.item_window)
                   /\ Len(windows') = Len(windows) + 1
                   /\ SubSeq(windows', 1, Len(windows)) = windows
                   /\ button'.item_window = Some(Len(windows'))]_vars

\* the button has created two windows, one after the other, and holds none
\* after a release the inner Button did not handle
C12_Witness ==
    /\ Len(windows) = 2
    /\ \A w \in 1..2 : windows[w].marked_for_removal
    /\ is_none(button.item_window)
    /\ is_some(button.item_index)
    /\ event[1] = "on_mouse_release"
    /\ ~event[3]

----------------------------------------------------------------------------
(* C13 *)

\* the positions in a sequence of button widgets that hold item `index`
ButtonsOf(widgets, index) ==
    {b \in 1..Len(widgets) : widgets[b].kind.item_index = Some(index)}

\* C13: the items list on_add builds has exactly one button per item that
\* is not equipped and none for an equipped one; a listed button has an
\* equip callback exactly when its item is equippable; the equipped area has
\* exactly one button per slot, disabled exactly when the slot holds no item;
\* so every item is behind a button of exactly one of the two areas.
C13_OnAddShowsEveryItemOnce ==
    is_some(window.children) =>
        LET list == unwrap(window.children).items_list
            area == unwrap(window.children).equipped_area
            Indices == 0..(Len(inventory.items) - 1)
            Equipped == {i \in Indices : \E slot \in SlotSet : inventory.equipped[slot] = Some(i)}
        IN  /\ \A i \in Indices :
                   Cardinality(ButtonsOf(list, i)) = IF i \in Equipped THEN 0 ELSE 1
            /\ Len(list) = Cardinality(Indices \ Equipped)
            /\ \A b \in 1..Len(list) :
                   LET i == unwrap(list[b].kind.item_index)
                   IN  /\ list[b].enabled
                       /\ list[b].callbacks =
                              IF is_some(inventory.items[i + 1].equippable)
                              THEN << <<"equip", i>> >>
                              ELSE <<>>
            /\ Len(area) = Len(Slots)
            /\ \A b \in 1..Len(area) :
                   /\ area[b].theme = theme_id(Slots[b])
                   /\ area[b].kind.item_index = inventory.equipped[Slots[b]]
                   /\ area[b].callbacks = << <<"unequip", Slots[b]>> >>
                   /\ area[b].enabled <=> is_some(inventory.equipped[Slots[b]])
            /\ \A i \in Indices :
                   (ButtonsOf(list, i) # {}) <=> (ButtonsOf(area, i) = {})

\* an inventory with an equipped item, a listed equippable item, and an
\* empty slot, shown by on_add
C13_Witness ==
    /\ is_some(window.children)
    /\ Len(inventory.items) = 2
    /\ inventory.equipped["Head"] = Some(1)
    /\ is_none(inventory.equipped["HeldMain"])
    /\ inventory.items[1].equippable = Some("HeldMain")
    /\ Len(unwrap(window.children).items_list) = 1
    /\ unwrap(window.children).items_list[1].callbacks = << <<"equip", 0>> >>
    /\ ~unwrap(window.children).equipped_area[3].enabled
    /\ unwrap(window.children).equipped_area[1].enabled

====
